---- MODULE Spec2Model ----
(***************************************************************************)
(* A model of usbdevs.c: the enumeration of USB controllers and device     *)
(* addresses by main and the dump_* handlers, the four decoders            *)
(* (dump_device, print_device, print_config, print_full), the walk over    *)
(* the chained descriptors in print_full, and the two bit-field decoders   *)
(* (port status in dump_device, endpoint attributes in print_endpt).       *)
(*                                                                         *)
(* The kernel (ioctl), malloc and the byte content of the descriptors are  *)
(* the environment: their results are chosen nondeterministically.  A read *)
(* past the end of the malloc'ed buffer is undefined behaviour: it yields  *)
(* an arbitrary byte or ends the process.                                  *)
(*                                                                         *)
(* The values of the USB_ and UPS_ constants are those of                  *)
(* <dev/usb/usb.h>, which usbdevs.c includes.                              *)
(*                                                                         *)
(* Not modelled: option parsing (Init is main after getopt), unveil, the   *)
(* text of the reports other than the labels.                              *)
(***************************************************************************)
EXTENDS Integers, Sequences, FiniteSets, TLC

\* ---------------------------------------------------------------- bounds
\* number of /dev/usbN nodes main tries (the code tries 10)
MaxControllers == 2
\* largest wTotalLength the kernel reports
MaxLen == 3
\* number of bits of the port status word drawn by InitPort
StatusBits == 10
\* largest value of the verbose counter (-v given MaxVerbose times)
MaxVerbose == 2

\* ------------------------------------------------------- program constants
USB_MAX_DEVICES == 128
COMM_INFO == 0
COMM_STAT == 1
COMM_DDSC == 2
COMM_CDSC == 3
COMM_FDSC == 4
C_DESC == 2
S_DESC == 3
I_DESC == 4
E_DESC == 5
USB_SPEED_SUPER == 4
UPS_CURRENT_CONNECT_STATUS == 1
UPS_PORT_ENABLED == 2
UPS_SUSPEND == 4
UPS_OVERCURRENT_INDICATOR == 8
UPS_PORT_L1 == 32
UPS_PORT_POWER == 256
UPS_PORT_POWER_SS == 512

\* ------------------------------------------------------------ environment
\* the addresses at which the kernel may answer anything but ENXIO
DevAddrs == {3, 7}
\* the address argument of -a; 0 is "all addresses"
Targets == {0} \cup DevAddrs
\* the outcomes of an ioctl: success, errno == ENXIO, any other errno
Results == {"OK", "ENXIO", "EIO"}
\* the byte values descriptors are drawn from: the lengths 0..MaxLen and
\* beyond, the tags C_DESC, I_DESC, E_DESC and others
ByteVals == {0, 1, 2, 4, 5}
\* the speeds udi_speed is drawn from (0 and 5 are not named by usb.h)
Speeds == 0..5
\* the walk log keeps this many entries; a longer walk keeps walking
MaxVisit == MaxLen + 2

\* --------------------------------------------------------- C operators
RECURSIVE BitAnd(_, _)
\* a & b on naturals
BitAnd(a, b) ==
    IF a = 0 \/ b = 0 THEN 0
    ELSE (a % 2) * (b % 2) + 2 * BitAnd(a \div 2, b \div 2)

\* #define UPS_PORT_LS_GET(x) (((x) >> 5) & 0xf)
UPS_PORT_LS_GET(x) == BitAnd(x \div 32, 15)

Max(a, b) == IF a > b THEN a ELSE b

\* the link-state labels of the switch in dump_device, by case value
LinkStateNames ==
    <<"U0", "U1", "U2", "U3", "SS.disabled", "Rx.detect", "ss.inactive",
      "polling", "recovery", "hot.reset", "comp.mod", "loopback">>

LinkStateLabels == {LinkStateNames[i] : i \in 1..Len(LinkStateNames)}

\* the switch (UPS_PORT_LS_GET(status)): one label for the cases 0..11,
\* nothing for 12..15 (the switch has no default)
LinkStateOut(status) ==
    IF UPS_PORT_LS_GET(status) < Len(LinkStateNames)
    THEN <<LinkStateNames[UPS_PORT_LS_GET(status) + 1]>>
    ELSE <<>>

Flag(status, mask, label) ==
    IF BitAnd(status, mask) # 0 THEN <<label>> ELSE <<>>

\* a port decoder that ignores the speed and always reads the status the
\* USB 2.0 way: the properties of the decoder must tell it from the code
PortLabelsAnySpeed(speed, status) ==
    Flag(status, UPS_PORT_L1, "l1") \o Flag(status, UPS_PORT_POWER, "power")

\* the labels dump_device prints for one port after "overcurrent": the
\* branches of if (di.udi_speed < USB_SPEED_SUPER)
PortLabelsBySpeed(speed, status) ==
    IF speed < USB_SPEED_SUPER
    THEN Flag(status, UPS_PORT_L1, "l1")
         \o Flag(status, UPS_PORT_POWER, "power")
    ELSE Flag(status, UPS_PORT_POWER_SS, "power")
         \o LinkStateOut(status)

\* the labels dump_device prints for one port, in the order printed
PortLabels(speed, status) ==
    Flag(status, UPS_CURRENT_CONNECT_STATUS, "connect")
    \o Flag(status, UPS_PORT_ENABLED, "enabled")
    \o Flag(status, UPS_SUSPEND, "supsend")
    \o Flag(status, UPS_OVERCURRENT_INDICATOR, "overcurrent")
    \o PortLabelsBySpeed(speed, status)

\* print_endpt: the direction printed for the byte at cur + 2
EndptDir(b2) == IF BitAnd(b2, 7) # 0 THEN "in" ELSE "out"

\* print_endpt: the number printed as endpt_addr
EndptNum(b2) == BitAnd(b2, 3)

\* print_endpt: the inner switch (*(cur + 3) & 0xC) with cases 0, 1, 2, 3
EndptSync(b3) ==
    CASE BitAnd(b3, 12) = 0 -> <<"none">>
      [] BitAnd(b3, 12) = 1 -> <<"async">>
      [] BitAnd(b3, 12) = 2 -> <<"adaptive">>
      [] BitAnd(b3, 12) = 3 -> <<"sync">>
      [] OTHER -> <<>>

\* print_endpt: the outer switch (*(cur + 3) & 0x3)
EndptType(b3) ==
    CASE BitAnd(b3, 3) = 0 -> <<"control">>
      [] BitAnd(b3, 3) = 1 -> <<"isochronous">> \o EndptSync(b3)
      [] BitAnd(b3, 3) = 2 -> <<"bulk">>
      [] OTHER -> <<"interrupt">>

\* print_endpt: direction, then the transfer type and sync type labels
print_endpt(b2, b3) == <<EndptDir(b2)>> \o EndptType(b3)


\* ------------------------------------------------------------------ state
VARIABLES
    command,      \* main: the command chosen by the options
    target,       \* main: addr, the argument of -a, 0 when absent
    controller,   \* main: controller, "NULL" without -d, "named" with it
    ctl,          \* main: i, the index of the controller being tried
    ncont,        \* main: ncont, the controllers opened and dumped
    pc,           \* where the process is
    addr,         \* the loop variable addr of the dump_* handlers
    done,         \* char done[USB_MAX_DEVICES]
    qlog,         \* the ioctls issued on the open controller, in order
    reports,      \* the addresses of the report lines printed for it
    warns,        \* the addresses of the warn() calls made for it
    wtotlen,      \* print_full: wtotlen
    buf,          \* print_full: the bytes at dfd.udf_data
    cur,          \* print_full: cur - dfd.udf_data
    heap,         \* the number of malloc'ed buffers not yet freed
    walked,       \* the renderer calls of the walk, in order
    maxRead,      \* the largest buffer offset read by the walk, -1 if none
    mallocCalled, \* print_full called malloc for the current address
    fetched,      \* print_full issued USB_DEVICE_GET_FDESC for it
    speed,        \* dump_device: di.udi_speed
    status,       \* dump_device: status of the port being printed
    verbose,      \* int verbose
    portOut,      \* the labels printed for the port
    portPc,       \* where the port decoder is
    epAddr,       \* print_endpt: the byte at cur + 2, bEndpointAddress
    epAttr,       \* print_endpt: the byte at cur + 3, bmAttributes
    epOut,        \* the labels print_endpt printed
    epPc          \* where print_endpt is

enumVars == <<command, target, controller, ctl, ncont, pc, addr, done, qlog, reports, warns>>
walkVars == <<wtotlen, buf, cur, heap, walked, maxRead, mallocCalled, fetched>>
portVars == <<speed, status, verbose, portOut, portPc>>
endptVars == <<epAddr, epAttr, epOut, epPc>>
vars == <<enumVars, walkVars, portVars, endptVars>>

Commands == {COMM_INFO, COMM_STAT, COMM_DDSC, COMM_CDSC, COMM_FDSC}

\* the result of an ioctl for address a: only the addresses of DevAddrs
\* answer anything but ENXIO
Ioctl(a) == IF a \in DevAddrs THEN Results ELSE {"ENXIO"}

\* the values of cd.udc_desc.wTotalLength after USB_DEVICE_GET_CDESC
WTotLens(r) == IF r = "OK" THEN 0..MaxLen ELSE {0}

\* memset(done, 0, sizeof(done))
DoneCleared == [a \in 0..(USB_MAX_DEVICES - 1) |-> 0]

\* a failure path without the errno test, which warns for absent devices
\* too: the properties of the enumeration must tell it from the code
WarnAlways(w, a, r) == Append(w, a)

\* if (errno != ENXIO) warn("addr %u", addr)
WarnUnlessENXIO(w, a, r) == IF r = "EIO" THEN Append(w, a) ELSE w

\* the parts of the state the decoders of a run never touch
IdlePort ==
    /\ speed = 0 /\ status = 0 /\ verbose = 0
    /\ portOut = <<>> /\ portPc = "idle"

IdleEndpt == epAddr = 0 /\ epAttr = 0 /\ epOut = <<>> /\ epPc = "idle"

IdleWalk ==
    /\ wtotlen = 0 /\ buf = <<>> /\ cur = 0 /\ heap = 0
    /\ walked = <<>> /\ maxRead = -1
    /\ mallocCalled = FALSE /\ fetched = FALSE

IdleEnum ==
    /\ command = COMM_INFO /\ target = 0 /\ controller = "NULL"
    /\ ctl = 0 /\ ncont = 0
    /\ pc = "idle"
    /\ addr = 0 /\ done = DoneCleared
    /\ qlog = <<>> /\ reports = <<>> /\ warns = <<>>

\* main after getopt: the globals are zero, no controller is open yet
Init ==
    /\ command \in Commands
    /\ target \in Targets
    /\ controller \in {"NULL", "named"}
    /\ ctl = 0 /\ ncont = 0 /\ pc = "main" /\ addr = 0
    /\ done = DoneCleared
    /\ qlog = <<>> /\ reports = <<>> /\ warns = <<>>
    /\ IdleWalk /\ IdlePort /\ IdleEndpt

\* ------------------------------------------------------------------- main
\* the controllers main opens: /dev/usb0 .. /dev/usb9 in the for loop
\* when controller == NULL, the one named by -d otherwise
Controllers == IF controller = "NULL" THEN MaxControllers ELSE 1

\* main, controller == NULL: open(path) fails, continue with the next
\* controller
MainOpenFail ==
    /\ pc = "main" /\ controller = "NULL" /\ ctl < Controllers
    /\ ctl' = ctl + 1
    /\ UNCHANGED <<command, target, controller, ncont, pc, addr, done>>
    /\ UNCHANGED <<qlog, reports, warns, walkVars, portVars, endptVars>>

\* main, controller given: open(controller) fails, err(1, "%s", controller)
MainOpenErr ==
    /\ pc = "main" /\ controller = "named" /\ ctl < Controllers
    /\ pc' = "err_open"
    /\ UNCHANGED <<command, target, controller, ctl, ncont, addr, done>>
    /\ UNCHANGED <<qlog, reports, warns, walkVars, portVars, endptVars>>

\* the name of the handler main's switch (command) calls
Handler(c) ==
    CASE c = COMM_INFO -> "dump_controller"
      [] c = COMM_CDSC -> "dump_config"
      [] c = COMM_DDSC -> "dump_device_desc"
      [] c = COMM_FDSC -> "full_dump"
      [] c = COMM_STAT -> "dump_stats"

\* a dump_controller without the memset, which keeps the markers of the
\* controller before: the properties of done must tell it from the code
memset_missing(c) == done

\* dump_controller: memset(done, 0, sizeof(done)); the other handlers
\* leave done alone
memset_done(c) == IF c = COMM_INFO THEN DoneCleared ELSE done

\* main: open succeeds, switch (command) enters the handler; a handler
\* with an addr parameter starts at addr when it is given, at address 1
\* otherwise.  dump_controller first clears done.
MainDispatch ==
    /\ pc = "main" /\ ctl < Controllers
    /\ pc' = Handler(command)
    /\ addr' = IF command = COMM_STAT THEN addr
               ELSE IF target # 0 THEN target ELSE 1
    /\ done' = memset_done(command)
    /\ qlog' = <<>> /\ reports' = <<>> /\ warns' = <<>>
    /\ wtotlen' = 0 /\ buf' = <<>> /\ cur' = 0
    /\ walked' = <<>> /\ maxRead' = -1
    /\ mallocCalled' = FALSE /\ fetched' = FALSE
    /\ UNCHANGED <<command, target, controller, ctl, ncont, heap, portVars, endptVars>>

\* main: the for loop over the controllers ends, or the controller of -d
\* has been closed: return 0
MainExit ==
    /\ pc = "main" /\ ctl = Controllers
    /\ pc' = "done"
    /\ UNCHANGED <<command, target, controller, ctl, ncont, addr, done, qlog, reports, warns>>
    /\ UNCHANGED <<walkVars, portVars, endptVars>>

\* a handler returns to main: close(fd), and ncont++ in the for loop
HandlerReturn ==
    /\ ctl' = ctl + 1
    /\ ncont' = IF controller = "NULL" THEN ncont + 1 ELSE ncont
    /\ pc' = "main"

\* after the decode of one address: a handler given an address returns,
\* the others go to addr + 1
NextAddr ==
    IF target # 0
    THEN HandlerReturn /\ addr' = addr
    ELSE addr' = addr + 1 /\ UNCHANGED <<ctl, ncont, pc>>

\* the for loop of a handler ends: the handler returns, main closes the
\* controller and goes on
LoopExit ==
    /\ pc \in {"dump_controller", "dump_device_desc", "dump_config",
               "full_dump"}
    /\ addr = USB_MAX_DEVICES
    /\ HandlerReturn
    /\ UNCHANGED <<command, target, controller, addr, done, qlog, reports, warns>>
    /\ UNCHANGED <<walkVars, portVars, endptVars>>

\* ------------------------------------------------------------ statistics
\* dump_stats(name, fd) when ioctl(fd, USB_DEVICESTATS, &ds) results in r:
\* the query, the warning and the report are those of the controller, not
\* of an address (logged as address -1)
dump_stats(r) ==
    /\ qlog' = Append(qlog, [a |-> -1, k |-> "STATS", r |-> r])
    /\ warns' = IF r = "OK" THEN warns ELSE WarnUnlessENXIO(warns, -1, r)
    /\ reports' = IF r = "OK" THEN Append(reports, -1) ELSE reports

\* main: case COMM_STAT, dump_stats and its return
DumpStats ==
    /\ pc = "dump_stats"
    /\ \E r \in Results : dump_stats(r)
    /\ HandlerReturn
    /\ UNCHANGED <<command, target, controller, addr, done>>
    /\ UNCHANGED <<walkVars, portVars, endptVars>>

\* ------------------------------------------------------------ live info
\* dump_device(fd, a) when ioctl(fd, USB_DEVICEINFO, &di) results in r
dump_device(a, r) ==
    /\ qlog' = Append(qlog, [a |-> a, k |-> "INFO", r |-> r])
    /\ warns' = IF r = "OK" THEN warns ELSE WarnUnlessENXIO(warns, a, r)
    /\ done' = IF r = "OK" THEN [done EXCEPT ![a] = 1] ELSE done
    /\ reports' = IF r = "OK" THEN Append(reports, a) ELSE reports

\* dump_controller: the guard of the loop body, if (!done[addr]); the
\* call for a given address has no guard
MustDump(a) == target # 0 \/ done[a] = 0

\* dump_controller: the call for a given address, or one iteration of
\* the loop over all addresses
DumpControllerStep ==
    /\ pc = "dump_controller" /\ addr < USB_MAX_DEVICES
    /\ IF MustDump(addr)
       THEN \E r \in Ioctl(addr) : dump_device(addr, r)
       ELSE UNCHANGED <<done, qlog, reports, warns>>
    /\ NextAddr
    /\ UNCHANGED <<command, target, controller, walkVars, portVars, endptVars>>

\* ------------------------------------------- device and config descriptors
\* print_device(fd, a) when ioctl(fd, USB_DEVICE_GET_DDESC, &ddd) results
\* in r
print_device(a, r) ==
    /\ qlog' = Append(qlog, [a |-> a, k |-> "DDESC", r |-> r])
    /\ warns' = IF r = "OK" THEN warns ELSE WarnUnlessENXIO(warns, a, r)
    /\ reports' = IF r = "OK" THEN Append(reports, a) ELSE reports

\* dump_device_desc: the call for a given address, or one iteration
DumpDeviceDescStep ==
    /\ pc = "dump_device_desc" /\ addr < USB_MAX_DEVICES
    /\ \E r \in Ioctl(addr) : print_device(addr, r)
    /\ NextAddr
    /\ UNCHANGED <<command, target, controller, done, walkVars, portVars, endptVars>>

\* print_config(fd, a, config, quiet) when ioctl(fd, USB_DEVICE_GET_CDESC,
\* &cd) results in r: the log, the warnings and the lines after the call
\* (the value returned is 0 on failure, wTotalLength otherwise)
ConfigQlog(a, r) == Append(qlog, [a |-> a, k |-> "CDESC", r |-> r])

ConfigWarns(a, r) == IF r = "OK" THEN warns ELSE WarnUnlessENXIO(warns, a, r)

ConfigReports(a, r, quiet) ==
    IF r = "OK" /\ ~quiet THEN Append(reports, a) ELSE reports

\* dump_config: the call for a given address, or one iteration
DumpConfigStep ==
    /\ pc = "dump_config" /\ addr < USB_MAX_DEVICES
    /\ \E r \in Ioctl(addr) :
          /\ qlog' = ConfigQlog(addr, r)
          /\ warns' = ConfigWarns(addr, r)
          /\ reports' = ConfigReports(addr, r, FALSE)
    /\ NextAddr
    /\ UNCHANGED <<command, target, controller, done, walkVars, portVars, endptVars>>


\* ------------------------------------------------------------- full dump
\* the log and the warnings after ioctl(fd, USB_DEVICE_GET_FDESC, &dfd)
\* results in r, q and w being their values before the call
FdescQlog(q, a, r) == Append(q, [a |-> a, k |-> "FDESC", r |-> r])

\* print_full(fd, a, config, w), entered with the log q and the warnings
\* wn: malloc(w) returns NULL (errx) or a buffer; the fetch fails (return)
\* or fills the buffer, "addr %02u, " is printed and the walk starts.
\* No path frees the buffer.
print_full(a, w, q, wn) ==
    /\ wtotlen' = w
    /\ mallocCalled' = TRUE
    /\ walked' = <<>> /\ maxRead' = -1 /\ cur' = 0
    /\ \/ /\ pc' = "errx_malloc"
          /\ qlog' = q /\ warns' = wn
          /\ fetched' = FALSE /\ buf' = <<>>
          /\ UNCHANGED <<heap, reports, ctl, ncont, addr>>
       \/ /\ heap' = heap + 1
          /\ fetched' = TRUE
          /\ \E r \in Ioctl(a) :
                /\ qlog' = FdescQlog(q, a, r)
                /\ IF r = "OK"
                   THEN /\ \E b \in [1..w -> ByteVals] : buf' = b
                        /\ warns' = wn
                        /\ reports' = Append(reports, a)
                        /\ pc' = "walk"
                        /\ UNCHANGED <<ctl, ncont, addr>>
                   ELSE /\ buf' = <<>>
                        /\ warns' = WarnUnlessENXIO(wn, a, r)
                        /\ reports' = reports
                        /\ NextAddr

\* full_dump: wtotlen = print_config(fd, addr, config, true);
\* print_full(fd, addr, config, wtotlen), for a given address or as one
\* iteration of the loop
FullDumpStep ==
    /\ pc = "full_dump" /\ addr < USB_MAX_DEVICES
    /\ \E rc \in Ioctl(addr) : \E w \in WTotLens(rc) :
          print_full(addr, w, ConfigQlog(addr, rc), ConfigWarns(addr, rc))
    /\ UNCHANGED <<command, target, controller, done, portVars, endptVars>>

\* the renderer the switch (*(cur + 1)) of print_full calls
Renderer(tag) ==
    CASE tag = C_DESC -> "print_fconfig"
      [] tag = I_DESC -> "print_iface"
      [] tag = E_DESC -> "print_endpt"
      [] tag = S_DESC -> "print_unknown"
      [] OTHER -> "print_unknown"

\* the largest offset the renderer reads, for a sub-descriptor at offset
\* c whose first byte is l: print_fconfig reads cur + 5, print_iface
\* cur + 2 .. cur + 7, print_endpt cur + 2 .. cur + 6, print_unknown
\* cur + 1 and cur + i for i < *cur
RendererMaxOff(kind, c, l) ==
    CASE kind = "print_fconfig" -> c + 5
      [] kind = "print_iface" -> c + 7
      [] kind = "print_endpt" -> c + 6
      [] OTHER -> Max(c + 1, c + l - 1)

\* the values *(cur + 1) can have: the byte of the buffer, or any byte
\* when cur + 1 is past the end of the buffer
TagAt(c) == IF c + 1 < wtotlen THEN {buf[c + 2]} ELSE ByteVals

\* the offsets the renderer reads after the switch has read cur + 1, for a
\* sub-descriptor at offset c whose first byte is l, lowest first
RendererReads(kind, c, l) ==
    CASE kind = "print_fconfig" -> {c + 5}
      [] kind = "print_iface" -> (c + 2)..(c + 7)
      [] kind = "print_endpt" -> (c + 2)..(c + 6)
      [] OTHER -> (c + 2)..(c + l - 1)

\* the largest offset one iteration of the walk reads when the tag read
\* is tag
IterMaxOff(c, tag) == Max(c + 1, RendererMaxOff(Renderer(tag), c, buf[c + 1]))

\* the for loop of print_full advances by cur += *cur
Advance(c) == c + buf[c + 1]

\* print_full: the loop condition cur < dfd.udf_data + wtotlen
InLoop == cur < wtotlen

\* the log of the renderer calls after the call the switch makes for tag
Called(tag) ==
    IF Len(walked) < MaxVisit
    THEN Append(walked, [cur |-> cur, len |-> buf[cur + 1],
                         kind |-> Renderer(tag)])
    ELSE walked

\* print_full: one iteration of the for loop: switch (*(cur + 1)), the
\* renderer, cur += *cur
WalkVisit ==
    /\ pc = "walk" /\ InLoop
    /\ \E tag \in TagAt(cur) :
          /\ walked' = Called(tag)
          /\ maxRead' = Max(maxRead, IterMaxOff(cur, tag))
    /\ cur' = Advance(cur)
    /\ UNCHANGED <<enumVars, wtotlen, buf, heap, mallocCalled, fetched>>
    /\ UNCHANGED <<portVars, endptVars>>

\* a load at offset f can hit unmapped memory: f is past the end of the
\* buffer and past every offset the walk has loaded from
CanFault(f) == f >= wtotlen /\ f > maxRead

\* print_full: a load of the iteration past the end of the buffer hits
\* unmapped memory and the process is killed there (one outcome of the
\* undefined behaviour): either the load of the tag at cur + 1, before any
\* renderer is called, or a load at offset f made by the renderer called,
\* the loads below f having been made
WalkFault ==
    /\ pc = "walk" /\ InLoop
    /\ \/ /\ CanFault(cur + 1)
          /\ maxRead' = cur + 1
          /\ walked' = walked
       \/ \E tag \in TagAt(cur) :
             \E f \in RendererReads(Renderer(tag), cur, buf[cur + 1]) :
                /\ CanFault(f)
                /\ maxRead' = f
                /\ walked' = Called(tag)
    /\ pc' = "killed"
    /\ UNCHANGED <<command, target, controller, ctl, ncont, addr, done>>
    /\ UNCHANGED <<qlog, reports, warns>>
    /\ UNCHANGED <<wtotlen, buf, cur, heap, mallocCalled, fetched>>
    /\ UNCHANGED <<portVars, endptVars>>

\* print_full: the loop condition is false, print_full returns to
\* full_dump without freeing dfd.udf_data
WalkReturn ==
    /\ pc = "walk" /\ ~InLoop
    /\ IF target # 0
       THEN HandlerReturn /\ addr' = addr
       ELSE addr' = addr + 1 /\ pc' = "full_dump" /\ UNCHANGED <<ctl, ncont>>
    /\ UNCHANGED <<command, target, controller, done, qlog, reports, warns>>
    /\ UNCHANGED <<walkVars, portVars, endptVars>>

Next ==
    \/ MainOpenFail
    \/ MainOpenErr
    \/ MainDispatch
    \/ MainExit
    \/ LoopExit
    \/ DumpStats
    \/ DumpControllerStep
    \/ DumpDeviceDescStep
    \/ DumpConfigStep
    \/ FullDumpStep
    \/ WalkVisit
    \/ WalkFault
    \/ WalkReturn

Spec == Init /\ [][Next]_vars


\* --------------------------------------------------- the live-info command
\* main after getopt without -c, -e, -f, -s: command is COMM_INFO
InitInfo == Init /\ command = COMM_INFO

NextInfo ==
    \/ MainOpenFail
    \/ MainOpenErr
    \/ MainDispatch
    \/ MainExit
    \/ LoopExit
    \/ DumpControllerStep

SpecInfo == InitInfo /\ [][NextInfo]_vars

\* ------------------------------------------------- the port status decoder
\* dump_device about to print the line of one port of a device
InitPort ==
    /\ speed \in Speeds
    /\ status \in 0..(2 ^ StatusBits - 1)
    /\ verbose \in 0..MaxVerbose
    /\ portOut = <<>> /\ portPc = "port"
    /\ IdleEnum /\ IdleWalk /\ IdleEndpt

\* dump_device: the body of the loop over the ports, under if (verbose > 1)
DumpDevicePort ==
    /\ portPc = "port"
    /\ portOut' = IF verbose > 1 THEN PortLabels(speed, status) ELSE <<>>
    /\ portPc' = "printed"
    /\ UNCHANGED <<speed, status, verbose, enumVars, walkVars, endptVars>>

NextPort == DumpDevicePort

SpecPort == InitPort /\ [][NextPort]_vars

\* --------------------------------------------------- the endpoint decoder
\* print_endpt about to print an endpoint descriptor
InitEndpt ==
    /\ epAddr \in 0..255
    /\ epAttr \in 0..255
    /\ epOut = <<>> /\ epPc = "endpt"
    /\ IdleEnum /\ IdleWalk /\ IdlePort

PrintEndpt ==
    /\ epPc = "endpt"
    /\ epOut' = print_endpt(epAddr, epAttr)
    /\ epPc' = "printed"
    /\ UNCHANGED <<epAddr, epAttr, enumVars, walkVars, portVars>>

NextEndpt == PrintEndpt

SpecEndpt == InitEndpt /\ [][NextEndpt]_vars

\* ------------------------------------------------------------ properties
Range(s) == {s[i] : i \in 1..Len(s)}

\* bit k of x
Bit(x, k) == (x \div (2 ^ k)) % 2

\* the addresses of the entries of the log q with result r, in order
RECURSIVE AddrsWith(_, _)
AddrsWith(q, r) ==
    IF q = <<>> THEN <<>>
    ELSE (IF Head(q).r = r THEN <<Head(q).a>> ELSE <<>>)
         \o AddrsWith(Tail(q), r)

\* the log holds one query for each of the addresses 1..n, in that order
QueriedAscending(n) ==
    /\ Len(qlog) = n
    /\ \A i \in 1..n : qlog[i].a = i

\* a controller has been enumerated and main has not opened the next one
EnumerationOver ==
    /\ pc = "main"
    /\ IF controller = "NULL" THEN ncont > 0 ELSE ctl = 1

\* C1: the walk loop of print_full visits at most wtotlen sub-descriptors,
\* whatever the bytes of the buffer
C1_WalkVisitsAtMostN == Len(walked) <= wtotlen

\* C2: no read of the walk touches an offset greater than wtotlen - 1
C2_NoReadPastEnd == maxRead <= wtotlen - 1

\* C3: for an address whose quiet print_config returned 0, full_dump
\* neither calls malloc nor issues USB_DEVICE_GET_FDESC
C3_ShortCircuit ==
    (pc \in {"full_dump", "walk", "errx_malloc", "main"} /\ wtotlen = 0)
        => (~mallocCalled /\ ~fetched)

\* C4: with address 0 one enumeration queries 1..USB_MAX_DEVICES-1 once
\* each in ascending order, reports exactly the addresses that answered,
\* in ascending order, and warns for no address that answered ENXIO; with
\* a nonzero address exactly that address is queried, once
C4_AddressScoping ==
    /\ (target = 0 /\ pc = "dump_controller") => QueriedAscending(addr - 1)
    /\ (target = 0 /\ EnumerationOver)
          => QueriedAscending(USB_MAX_DEVICES - 1)
    /\ reports = AddrsWith(qlog, "OK")
    /\ \A i \in 1..Len(qlog) :
          qlog[i].r = "ENXIO" => qlog[i].a \notin Range(warns)
    /\ target # 0 => /\ Len(qlog) <= 1
                     /\ \A i \in 1..Len(qlog) : qlog[i].a = target
    /\ (target # 0 /\ EnumerationOver) => Len(qlog) = 1

\* the example of the specification: devices at 3 and 7 only, all
\* addresses asked for, the enumeration is over
C4_Witness ==
    /\ target = 0 /\ EnumerationOver
    /\ reports = <<3, 7>> /\ warns = <<>>
    /\ Len(qlog) = USB_MAX_DEVICES - 1

\* a query failed with an error other than ENXIO on the open controller
FailedQuery == \E i \in 1..Len(qlog) : qlog[i].r = "EIO"

\* the walk is at a sub-descriptor of length 0 inside the buffer: cur += *cur
\* leaves the cursor where it is and the loop condition true, for ever
WalkStuck == pc = "walk" /\ InLoop /\ Advance(cur) = cur

\* C5: a query that fails with an error other than ENXIO is warned about
\* and does not stop the enumeration: after it the process is neither
\* killed nor held for ever at one address (it ends only through errx
\* after a failed malloc)
C5_WarnAndContinue ==
    FailedQuery =>
        /\ \A i \in 1..Len(qlog) :
              qlog[i].r = "EIO" => qlog[i].a \in Range(warns)
        /\ pc # "killed"
        /\ ~WalkStuck

\* C6: at most one buffer of print_full is outstanding at any time, and
\* none once print_full has returned
C6_BufferReleased ==
    /\ heap <= 1
    /\ pc \in {"full_dump", "main", "done"} => heap = 0

\* C7: no renderer is called at a position whose length byte is 0
C7_ZeroLengthGuard == \A i \in 1..Len(walked) : walked[i].len # 0

\* the link-state labels among the labels printed
LinkOut == {l \in Range(portOut) : l \in LinkStateLabels}

\* C8: at verbose >= 2 a device of speed >= super gets "power" iff bit 9
\* of the status is set and the label of the link state in bits 5..8; a
\* slower one gets "power" iff bit 8 is set, "l1" iff bit 5 is set and no
\* link-state label; bit 9 with link state 3 gives "power" and "U3" for
\* the first and neither for the second
C8_PortDecoding ==
    (portPc = "printed" /\ verbose >= 2) =>
        LET ls == (status \div 32) % 16 IN
        /\ speed >= USB_SPEED_SUPER =>
              /\ ("power" \in Range(portOut)) <=> (Bit(status, 9) = 1)
              /\ ls < 12 => LinkOut = {LinkStateNames[ls + 1]}
              /\ LinkStateNames[4] = "U3"
        /\ speed < USB_SPEED_SUPER =>
              /\ ("power" \in Range(portOut)) <=> (Bit(status, 8) = 1)
              /\ ("l1" \in Range(portOut)) <=> (Bit(status, 5) = 1)
              /\ LinkOut = {}
        /\ (Bit(status, 9) = 1 /\ ls = 3) =>
              IF speed >= USB_SPEED_SUPER
              THEN "power" \in Range(portOut) /\ "U3" \in Range(portOut)
              ELSE "power" \notin Range(portOut) /\ "U3" \notin Range(portOut)

\* the example of the specification, printed for a super speed device
C8_WitnessSuper ==
    /\ portPc = "printed" /\ verbose >= 2 /\ speed = USB_SPEED_SUPER
    /\ Bit(status, 9) = 1 /\ (status \div 32) % 16 = 3
    /\ "power" \in Range(portOut) /\ "U3" \in Range(portOut)

TransferTypes == <<"control", "isochronous", "bulk", "interrupt">>
SyncTypes == <<"none", "async", "adaptive", "sync">>

\* C9: print_endpt prints the transfer type of bits 0..1 of bmAttributes,
\* for isochronous and only then the sync type of bits 2..3, and "in"
\* iff bit 7 of bEndpointAddress is set
C9_EndpointDecoding ==
    epPc = "printed" =>
        LET tt == epAttr % 4
            st == (epAttr \div 4) % 4
        IN  /\ epOut[1] = (IF Bit(epAddr, 7) = 1 THEN "in" ELSE "out")
            /\ epOut[2] = TransferTypes[tt + 1]
            /\ IF tt = 1
               THEN Len(epOut) = 3 /\ epOut[3] = SyncTypes[st + 1]
               ELSE Len(epOut) = 2

\* C10: done[a] is 1 exactly for the addresses whose USB_DEVICEINFO query
\* succeeded on the open controller (so all are 0 before its first
\* query), and no address is reported twice for one controller
C10_MarkerSet ==
    /\ \A a \in 0..(USB_MAX_DEVICES - 1) :
          (done[a] = 1) <=>
              (\E i \in 1..Len(qlog) : qlog[i].a = a /\ qlog[i].r = "OK")
    /\ \A i, j \in 1..Len(reports) : reports[i] = reports[j] => i = j

\* the loop over the addresses of a second controller has ended: 3
\* answered and is marked, 7 did not and is not
C10_Witness ==
    /\ ncont >= 1 /\ pc = "dump_controller" /\ addr = USB_MAX_DEVICES
    /\ done[3] = 1 /\ done[7] = 0 /\ reports = <<3>>

====
